---------------------------- MODULE Spec2Model ----------------------------
(***************************************************************************)
(* Commands._watch_builds of copr_cli/main.py (lines 106-158): the build   *)
(* status polling loop.  One run of the loop is a record (the locals of    *)
(* the method, the position in its code, the exception it ends with and    *)
(* the history of what it did); the Status Source (client.get_build_details)*)
(* is the environment and answers every query with any report.            *)
(***************************************************************************)
EXTENDS Integers, Sequences, FiniteSets, TLC

(* ----------------------------- bounds --------------------------------- *)

\* longest build_ids list handed to _watch_builds
MaxLen == 3

\* most non-terminal ("pending"/"running") answers the Status Source gives
\* during one watch; every later answer ends the polling of its build
MaxPolls == 2

(* ------------------------- values of the model ------------------------ *)

\* build identifiers (integers); 1 and 9 fall into the same slot of an
\* 8-slot hash table, so the iteration order of a set holding both depends
\* on which was inserted first
Ids == {1, 2, 9}

NonTerminal == {"pending", "running"}

\* the list literal of line 140-141
Terminal == {"succeeded", "skipped", "failed", "canceled"}

Statuses == NonTerminal \cup Terminal \cup {"unknown"}

\* error details of a report whose output is not "ok"
Errors == {"timeout", "no such build"}

OkReports == [output : {"ok"}, status : Statuses, error : {""}]

\* a report that is not ok still has a status field: one value of each kind
NotOkReports ==
    [output : {"notok"}, status : {"running", "failed", "unknown"}, error : Errors]

Reports == OkReports \cup NotOkReports

\* the value of build_details before the first query
NoDetails == [output |-> "", status |-> "", error |-> ""]

\* build_ids: every list of at most MaxLen identifiers, duplicates included
Inputs == UNION {[1..n -> Ids] : n \in 0..MaxLen}

(* ------------------------- helpers on sequences ----------------------- *)

Range(s) == {s[i] : i \in 1..Len(s)}

RECURSIVE SelectEv(_, _)
\* the events of trace t of kind k, in order
SelectEv(t, k) ==
    IF t = <<>> THEN <<>>
    ELSE IF Head(t).ev = k THEN <<Head(t)>> \o SelectEv(Tail(t), k)
    ELSE SelectEv(Tail(t), k)

\* one entry of the history of a run: a query of build b with the report it
\* got, a printed status line, a sleep, or the interruption
Event(k, b, out, st, err) ==
    [ev |-> k, id |-> b, output |-> out, status |-> st, error |-> err]

(* --------------- set(build_ids) and its iteration order --------------- *)

\* str(x) of an identifier
Str(x) == CASE x = 1 -> "1" [] x = 2 -> "2" [] x = 9 -> "9" [] OTHER -> "?"

EmptyTable == [i \in 0..7 |-> 0]

RECURSIVE Probe(_, _, _)
\* the slot of key in an 8-slot table, probing from slot i: the slot that
\* holds the key already, or the first free one (hash(x) = x for a small
\* integer; the next slot probed after i is 5*i + 1 modulo the table size)
Probe(table, key, i) ==
    IF table[i] = key \/ table[i] = 0 THEN i
    ELSE Probe(table, key, (5 * i + 1) % 8)

\* set.add(key): a key already in the table changes nothing
SetAdd(table, key) == [table EXCEPT ![Probe(table, key, key % 8)] = key]

RECURSIVE SetTable(_)
\* set(ids): the identifiers are added one after another
SetTable(ids) ==
    IF ids = <<>> THEN EmptyTable
    ELSE SetAdd(SetTable(SubSeq(ids, 1, Len(ids) - 1)), ids[Len(ids)])

RECURSIVE SlotsFrom(_, _)
\* the keys of the table from slot i on, in slot order
SlotsFrom(table, i) ==
    IF i > 7 THEN <<>>
    ELSE IF table[i] = 0 THEN SlotsFrom(table, i + 1)
    ELSE <<table[i]>> \o SlotsFrom(table, i + 1)

\* a list iterated as it is, every repetition included
ListOrder(ids) == ids

\* the order in which `for build_id in watched` visits set(build_ids)
SetOrder(ids) == SlotsFrom(SetTable(ids), 0)

(* ----------------------- the steps of the method ---------------------- *)

\* lines 110-118: the locals after `done = set()`, about to test the loop
Start(ids) ==
    [watched       |-> Range(SetOrder(ids)),
     order         |-> SetOrder(ids),
     done          |-> {},
     failed_ids    |-> <<>>,
     prevstatus    |-> [b \in Ids |-> "None"],
     build_id      |-> 0,
     build_details |-> NoDetails,
     idx           |-> 0,
     pc            |-> "while",
     exc           |-> "None",
     msg           |-> <<>>,
     trace         |-> <<>>]

\* raise exc(msg): neither exception class is KeyboardInterrupt, so the
\* except clause of line 157 lets it through to the caller
Raise(s, e, m) == [s EXCEPT !.pc = "done", !.exc = e, !.msg = m]

\* `while not done`: the loop ends as soon as one build is done
WhileNotDone(s) ==
    IF s.done = {} /\ s.watched # {} THEN [s EXCEPT !.pc = "for", !.idx = 1]
    ELSE [s EXCEPT !.pc = "settle"]

\* `while True`: the loop is left only by the break of line 148
WhileTrue(s) == [s EXCEPT !.pc = "for", !.idx = 1]

\* line 119: `while watched != done`; a true test starts the for loop of
\* line 120 on a fresh iterator, a false one leaves the loop for line 152
WhileTest(s) ==
    IF s.watched # s.done THEN [s EXCEPT !.pc = "for", !.idx = 1]
    ELSE [s EXCEPT !.pc = "settle"]

\* the for loop without the `continue` of lines 121-122
ForIterNoSkip(s) ==
    IF s.idx > Len(s.order) THEN [s EXCEPT !.pc = "endfor"]
    ELSE [s EXCEPT !.build_id = s.order[s.idx], !.idx = s.idx + 1, !.pc = "get"]

\* `break` in the place of the `continue` of line 122: a build that is done
\* ends the round
ForIterBreakOnDone(s) ==
    IF s.idx > Len(s.order) THEN [s EXCEPT !.pc = "endfor"]
    ELSE [s EXCEPT !.build_id = s.order[s.idx],
                   !.idx = s.idx + 1,
                   !.pc = IF s.order[s.idx] \in s.done THEN "endfor" ELSE "get"]

\* lines 120-122: the iterator hands out the next identifier of watched, or
\* is exhausted (line 147 follows); an identifier in done is skipped
ForIter(s) ==
    IF s.idx > Len(s.order) THEN [s EXCEPT !.pc = "endfor"]
    ELSE [s EXCEPT !.build_id = s.order[s.idx],
                   !.idx = s.idx + 1,
                   !.pc = IF s.order[s.idx] \in s.done THEN "for" ELSE "get"]

\* line 124: the Status Source answers the query for build_id with report r
GetBuildDetails(s, r) ==
    [s EXCEPT !.build_details = r,
              !.pc = "chk_output",
              !.trace = Append(@, Event("query", s.build_id, r.output, r.status,
                                        r.error))]

\* lines 127-128: the message of the CoprRequestException
RequestErrmsg(error, build_id) ==
    <<"  Build ", Str(build_id), ": Unable to get build status: ", error>>

\* a failed query is passed over and the round goes on with the next build
CheckOutputSkipBuild(s) ==
    IF s.build_details.output # "ok" THEN [s EXCEPT !.pc = "for"]
    ELSE [s EXCEPT !.pc = "chk_prev"]

\* a report that is not ok is still processed when its status is terminal
CheckOutputUnlessTerminal(s) ==
    IF s.build_details.output # "ok" /\ s.build_details.status \notin Terminal
    THEN Raise(s, "CoprRequestException",
               RequestErrmsg(s.build_details.error, s.build_id))
    ELSE [s EXCEPT !.pc = "chk_prev"]

\* lines 126-129
CheckOutput(s) ==
    IF s.build_details.output # "ok"
    THEN Raise(s, "CoprRequestException",
               RequestErrmsg(s.build_details.error, s.build_id))
    ELSE [s EXCEPT !.pc = "chk_prev"]

\* the status line printed after every query, changed or not
NotifyAlways(s) ==
    [s EXCEPT !.prevstatus[s.build_id] = s.build_details.status,
              !.pc = "chk_failed",
              !.trace = Append(@, Event("notify", s.build_id, "",
                                        s.build_details.status, ""))]

\* the status line printed only for a terminal status
NotifyTerminalOnly(s) ==
    IF s.prevstatus[s.build_id] # s.build_details.status
    THEN [s EXCEPT !.prevstatus[s.build_id] = s.build_details.status,
                   !.pc = "chk_failed",
                   !.trace = IF s.build_details.status \in Terminal
                             THEN Append(@, Event("notify", s.build_id, "",
                                                  s.build_details.status, ""))
                             ELSE @]
    ELSE [s EXCEPT !.pc = "chk_failed"]

\* the print placed before the assignment and printing the ledger entry:
\* the line shows the status the build had before
NotifyPrevious(s) ==
    IF s.prevstatus[s.build_id] # s.build_details.status
    THEN [s EXCEPT !.prevstatus[s.build_id] = s.build_details.status,
                   !.pc = "chk_failed",
                   !.trace = Append(@, Event("notify", s.build_id, "",
                                             s.prevstatus[s.build_id], ""))]
    ELSE [s EXCEPT !.pc = "chk_failed"]

\* lines 131-136: a status that differs from the ledger's is stored and
\* printed
Notify(s) ==
    IF s.prevstatus[s.build_id] # s.build_details.status
    THEN [s EXCEPT !.prevstatus[s.build_id] = s.build_details.status,
                   !.pc = "chk_failed",
                   !.trace = Append(@, Event("notify", s.build_id, "",
                                             s.build_details.status, ""))]
    ELSE [s EXCEPT !.pc = "chk_failed"]

\* failed_ids.insert(0, build_id): the newest failure comes first
CheckFailedInsertFirst(s) ==
    IF s.build_details.status \in {"failed"}
    THEN [s EXCEPT !.failed_ids = <<s.build_id>> \o @, !.pc = "chk_terminal"]
    ELSE [s EXCEPT !.pc = "chk_terminal"]

\* every terminal status but `succeeded` counted as a failure
CheckFailedNotSucceeded(s) ==
    IF s.build_details.status \in Terminal \ {"succeeded"}
    THEN [s EXCEPT !.failed_ids = Append(@, s.build_id), !.pc = "chk_terminal"]
    ELSE [s EXCEPT !.pc = "chk_terminal"]

\* lines 138-139
CheckFailed(s) ==
    IF s.build_details.status \in {"failed"}
    THEN [s EXCEPT !.failed_ids = Append(@, s.build_id), !.pc = "chk_terminal"]
    ELSE [s EXCEPT !.pc = "chk_terminal"]

\* "canceled" missing from the list of lines 140-141
CheckTerminalNoCanceled(s) ==
    IF s.build_details.status \in Terminal \ {"canceled"}
    THEN [s EXCEPT !.done = @ \cup {s.build_id}, !.pc = "chk_unknown"]
    ELSE [s EXCEPT !.pc = "chk_unknown"]

\* "failed" missing from the list of lines 140-141
CheckTerminalNoFailed(s) ==
    IF s.build_details.status \in Terminal \ {"failed"}
    THEN [s EXCEPT !.done = @ \cup {s.build_id}, !.pc = "chk_unknown"]
    ELSE [s EXCEPT !.pc = "chk_unknown"]

\* lines 140-142
CheckTerminal(s) ==
    IF s.build_details.status \in Terminal
    THEN [s EXCEPT !.done = @ \cup {s.build_id}, !.pc = "chk_unknown"]
    ELSE [s EXCEPT !.pc = "chk_unknown"]

\* `unknown` taken for one more non-terminal status
CheckUnknownIgnored(s) == [s EXCEPT !.pc = "for"]

\* `unknown` leaves the loop for the failure check of line 152
CheckUnknownBreaks(s) ==
    IF s.build_details.status = "unknown" THEN [s EXCEPT !.pc = "settle"]
    ELSE [s EXCEPT !.pc = "for"]

\* lines 143-145; otherwise the for loop goes on
CheckUnknown(s) ==
    IF s.build_details.status = "unknown"
    THEN Raise(s, "CoprBuildException", <<"Unknown status.">>)
    ELSE [s EXCEPT !.pc = "for"]

\* the break of line 148 taken without the test of line 147
EndForAlwaysBreak(s) == [s EXCEPT !.pc = "settle"]

\* the loop without the break of lines 147-148: it sleeps after every round
EndForAlwaysSleep(s) == [s EXCEPT !.pc = "sleep"]

\* the round also ends the watch when a failure has been seen
EndForBreakOnFailure(s) ==
    IF s.watched = s.done \/ s.failed_ids # <<>> THEN [s EXCEPT !.pc = "settle"]
    ELSE [s EXCEPT !.pc = "sleep"]

\* lines 147-148: after a round, break when every build is done
EndFor(s) ==
    IF s.watched = s.done THEN [s EXCEPT !.pc = "settle"]
    ELSE [s EXCEPT !.pc = "sleep"]

\* line 150: time.sleep(30) returns; the while test of line 119 follows
Sleep(s) ==
    [s EXCEPT !.pc = "while", !.trace = Append(@, Event("sleep", 0, "", "", ""))]

RECURSIVE Join(_)
\* ", ".join(str(x) for x in ids)
Join(ids) ==
    IF ids = <<>> THEN <<>>
    ELSE IF Len(ids) = 1 THEN <<Str(ids[1])>>
    ELSE <<Str(ids[1]), ", ">> \o Join(Tail(ids))

\* line 154: the message of the CoprBuildException for failed builds
FailedErrmsg(failed_ids) == <<"Build(s) ">> \o Join(failed_ids) \o <<" failed.">>

\* lines 152-155: the outcome after the loop
Settle(s) ==
    IF s.failed_ids # <<>>
    THEN Raise(s, "CoprBuildException", FailedErrmsg(s.failed_ids))
    ELSE [s EXCEPT !.pc = "done"]

\* the failure check of lines 152-155 placed after the except clause: an
\* interrupted watch reports the failures found so far
InterruptedReportsFailures(s) ==
    IF s.failed_ids # <<>>
    THEN [s EXCEPT !.pc = "done", !.exc = "CoprBuildException",
                   !.msg = FailedErrmsg(s.failed_ids),
                   !.trace = Append(@, Event("interrupt", 0, "", "", ""))]
    ELSE [s EXCEPT !.pc = "done",
                   !.trace = Append(@, Event("interrupt", 0, "", "", ""))]

\* the except clause of lines 157-158 raising the interruption again
InterruptedReraise(s) ==
    [s EXCEPT !.pc = "done", !.exc = "KeyboardInterrupt",
              !.trace = Append(@, Event("interrupt", 0, "", "", ""))]

\* lines 157-158: a KeyboardInterrupt raised anywhere in the try block is
\* caught and dropped; the method returns None
Interrupted(s) ==
    [s EXCEPT !.pc = "done", !.trace = Append(@, Event("interrupt", 0, "", "", ""))]

(* ------------------- main: the exit status of the process ------------ *)

\* the exception classes of copr.exceptions that main names (line 32): each
\* derives from CoprException and from no other of them
CoprExceptions ==
    {"CoprBuildException", "CoprUnknownResponseException",
     "CoprRequestException", "CoprException"}

\* isinstance(exc, cls) for an exception of class exc
IsInstance(exc, cls) ==
    exc = cls \/ (cls = "CoprException" /\ exc \in CoprExceptions)

\* lines 1050-1068: the except clauses of main in the order they are tried,
\* each with the status it hands to sys.exit
ExceptClauses ==
    << <<"KeyboardInterrupt", 1>>,
       <<"CoprBuildException", 4>>,
       <<"CoprUnknownResponseException", 5>>,
       <<"CoprRequestException", 1>>,
       <<"ArgumentTypeError", 2>>,
       <<"CoprException", 3>> >>

\* the first clause of clauses that catches exc
Caught(clauses, exc) ==
    LET hits == {i \in 1..Len(clauses) : IsInstance(exc, clauses[i][1])}
    IN  clauses[CHOOSE i \in hits : \A j \in hits : i <= j]

\* the status of the first clause of clauses that catches exc
ExitBy(clauses, exc) == Caught(clauses, exc)[2]

\* the clause for CoprException written first: it catches every Copr error
MainExitGenericFirst(exc) ==
    IF exc = "None" THEN 0
    ELSE ExitBy(<<ExceptClauses[6]>> \o SubSeq(ExceptClauses, 1, 5), exc)

\* lines 1034-1068: the exit status of the process when the action called at
\* line 1048 ends with exception exc ("None": it returned, main returns and
\* the process exits with status 0)
MainExit(exc) == IF exc = "None" THEN 0 ELSE ExitBy(ExceptClauses, exc)

\* the except clause of main that is entered when the action ends with exc
MainHandler(exc) ==
    IF exc = "None" THEN "None" ELSE Caught(ExceptClauses, exc)[1]

(* ------------- the callers: action_build and process_build ------------ *)

\* args.pkgs holds at most MaxPkgs packages
MaxPkgs == 2

\* the builds_list of a submission result, as the list of its build_ids
BuildLists == {<<>>, <<2>>, <<9, 1>>}

\* the results a submission (create_new_build, build_package) may return: a
\* result that is not ok lists no builds
Results ==
    [output : {"ok"}, build_ids : BuildLists]
        \cup {[output |-> "notok", build_ids |-> <<>>]}

\* no submission made yet
NoResult == [output |-> "", build_ids |-> <<>>]

\* no watch running: the locals of _watch_builds do not exist
Idle == [Start(<<>>) EXCEPT !.pc = "done"]

\* the call of the action by main, line 1048: args.pkgs has n packages
\* (action_build_package submits one), the loop of line 179 has not begun
Call(func, nowait, n) ==
    [func |-> func, nowait |-> nowait, n_pkgs |-> n, k |-> 0, pc |-> "loop",
     result |-> NoResult, exc |-> "None", status |-> 0, log |-> <<>>]

\* _watch_builds called on its own: the caller plays no part
Direct == [Call("_watch_builds", FALSE, 1) EXCEPT !.k = 1, !.pc = "watching"]

\* an entry of the caller's history
Entry(ev, k, ids, exc) == [ev |-> ev, k |-> k, ids |-> ids, exc |-> exc]

\* lines 179-194 and 267-268, or 568: the next package is taken and its
\* build submitted; the submission returns r
Submitted(a, r) ==
    [a EXCEPT !.k = a.k + 1, !.result = r, !.pc = "result",
              !.log = Append(@, Entry("submit", a.k + 1, r.build_ids,
                                        r.output))]

\* the watch started whatever the nowait option says
WatchesDespiteNowait(a) == a.result.output = "ok"

\* lines 272-274 and 280, or 570-572 and 578: the watch is started when the
\* result is ok and nowait is not set
Watches(a) == a.result.output = "ok" /\ ~a.nowait

\* lines 272-281: process_build after the submission: it returns, or calls
\* _watch_builds(build_ids)
ProcessResult(a) ==
    IF Watches(a)
    THEN [a EXCEPT !.pc = "watching",
                   !.log = Append(@, Entry("watch", a.k, a.result.build_ids, "None"))]
    ELSE [a EXCEPT !.pc = "loop"]

\* the exception of the watch caught by the loop: the next package follows
WatchEndedGoOn(a, s) ==
    [a EXCEPT !.pc = "loop",
              !.log = Append(@, Entry("return", a.k, <<>>, s.exc))]

\* line 281 returns and the loop of line 179 goes on, or the exception of
\* the watch leaves process_build and the action and reaches main, which
\* exits (lines 1050-1068)
WatchEnded(a, s) ==
    IF s.exc = "None"
    THEN [a EXCEPT !.pc = "loop",
                   !.log = Append(@, Entry("return", a.k, <<>>, "None"))]
    ELSE [a EXCEPT !.pc = "exit", !.exc = s.exc, !.status = MainExit(s.exc),
                   !.log = Append(@, Entry("return", a.k, <<>>, s.exc))]

\* line 196: the action returns, main returns and the process exits
ActionReturned(a) == [a EXCEPT !.pc = "exit", !.status = MainExit("None")]

(* ------------------------------ state --------------------------------- *)

\* n_ids:  the length of build_ids, the argument of _watch_builds (the list
\*         is read once, at line 115; the run keeps the set made of it)
\* w:      the run of _watch_builds(build_ids)
\* twin:   the run of _watch_builds on build_ids without its repeated
\*         identifiers, against the same answers of the Status Source
\* polls:  the non-terminal answers the Status Source gave so far
\* act:    the action main called (line 1048): its position, the result
\*         of its last submission and what it has done so far
VARIABLES n_ids, w, twin, polls, act

vars == <<n_ids, w, twin, polls, act>>

RECURSIVE Dedup(_)
\* ids with every repetition of an identifier after its first removed
Dedup(ids) ==
    IF ids = <<>> THEN <<>>
    ELSE LET front == Dedup(SubSeq(ids, 1, Len(ids) - 1))
             last  == ids[Len(ids)]
         IN  IF last \in Range(front) THEN front ELSE Append(front, last)

Init ==
    /\ \E build_ids \in Inputs :
          /\ n_ids = Len(build_ids)
          /\ w = Start(build_ids)
          /\ twin = Start(Dedup(build_ids))
    /\ polls = 0
    /\ act = Direct

\* an answer that leaves its build to be polled again
Counted(r) == r.output = "ok" /\ r.status \in NonTerminal

\* the answers the Status Source may give to the next query: it reports a
\* build non-terminal at most MaxPolls times in all
Answers == {r \in Reports : Counted(r) => polls < MaxPolls}

\* the answers that are ok and carry a recognized status
GoodAnswers == {r \in Answers : r.output = "ok" /\ r.status # "unknown"}

(* ----------------------------- actions -------------------------------- *)

DoWhileTest ==
    /\ w.pc = "while"
    /\ w' = WhileTest(w)
    /\ twin' = IF twin.pc = "while" THEN WhileTest(twin) ELSE twin
    /\ UNCHANGED <<n_ids, polls, act>>

DoForIter ==
    /\ w.pc = "for"
    /\ w' = ForIter(w)
    /\ twin' = IF twin.pc = "for" THEN ForIter(twin) ELSE twin
    /\ UNCHANGED <<n_ids, polls, act>>

Query(r) ==
    /\ w.pc = "get"
    /\ w' = GetBuildDetails(w, r)
    /\ twin' = IF twin.pc = "get" THEN GetBuildDetails(twin, r) ELSE twin
    /\ polls' = IF Counted(r) THEN polls + 1 ELSE polls
    /\ UNCHANGED <<n_ids, act>>

DoGetBuildDetails == \E r \in Answers : Query(r)

DoGetGoodDetails == \E r \in GoodAnswers : Query(r)

DoCheckOutput ==
    /\ w.pc = "chk_output"
    /\ w' = CheckOutput(w)
    /\ twin' = IF twin.pc = "chk_output" THEN CheckOutput(twin) ELSE twin
    /\ UNCHANGED <<n_ids, polls, act>>

DoNotify ==
    /\ w.pc = "chk_prev"
    /\ w' = Notify(w)
    /\ twin' = IF twin.pc = "chk_prev" THEN Notify(twin) ELSE twin
    /\ UNCHANGED <<n_ids, polls, act>>

DoCheckFailed ==
    /\ w.pc = "chk_failed"
    /\ w' = CheckFailed(w)
    /\ twin' = IF twin.pc = "chk_failed" THEN CheckFailed(twin) ELSE twin
    /\ UNCHANGED <<n_ids, polls, act>>

DoCheckTerminal ==
    /\ w.pc = "chk_terminal"
    /\ w' = CheckTerminal(w)
    /\ twin' = IF twin.pc = "chk_terminal" THEN CheckTerminal(twin) ELSE twin
    /\ UNCHANGED <<n_ids, polls, act>>

DoCheckUnknown ==
    /\ w.pc = "chk_unknown"
    /\ w' = CheckUnknown(w)
    /\ twin' = IF twin.pc = "chk_unknown" THEN CheckUnknown(twin) ELSE twin
    /\ UNCHANGED <<n_ids, polls, act>>

DoEndFor ==
    /\ w.pc = "endfor"
    /\ w' = EndFor(w)
    /\ twin' = IF twin.pc = "endfor" THEN EndFor(twin) ELSE twin
    /\ UNCHANGED <<n_ids, polls, act>>

DoSleep ==
    /\ w.pc = "sleep"
    /\ w' = Sleep(w)
    /\ twin' = IF twin.pc = "sleep" THEN Sleep(twin) ELSE twin
    /\ UNCHANGED <<n_ids, polls, act>>

DoSettle ==
    /\ w.pc = "settle"
    /\ w' = Settle(w)
    /\ twin' = IF twin.pc = "settle" THEN Settle(twin) ELSE twin
    /\ UNCHANGED <<n_ids, polls, act>>

\* the user's interruption arrives while the try block runs
KeyboardInterrupt ==
    /\ w.pc # "done"
    /\ w' = Interrupted(w)
    /\ twin' = IF twin.pc # "done" THEN Interrupted(twin) ELSE twin
    /\ UNCHANGED <<n_ids, polls, act>>

Next ==
    \/ DoWhileTest
    \/ DoForIter
    \/ DoGetBuildDetails
    \/ DoCheckOutput
    \/ DoNotify
    \/ DoCheckFailed
    \/ DoCheckTerminal
    \/ DoCheckUnknown
    \/ DoEndFor
    \/ DoSleep
    \/ DoSettle
    \/ KeyboardInterrupt

Spec == Init /\ [][Next]_vars

\* the watch under the assumptions of unattended polling: no interruption,
\* and every query answered ok with a recognized status
LiveNext ==
    \/ DoWhileTest
    \/ DoForIter
    \/ DoGetGoodDetails
    \/ DoCheckOutput
    \/ DoNotify
    \/ DoCheckFailed
    \/ DoCheckTerminal
    \/ DoCheckUnknown
    \/ DoEndFor
    \/ DoSleep
    \/ DoSettle

\* every query returns and every sleep ends: the thread keeps running
LiveSpec == Init /\ [][LiveNext]_vars /\ WF_vars(LiveNext)

\* main calls the build action or the build-package action; no watch runs
BuildInit ==
    /\ \E nowait \in BOOLEAN :
          \/ \E n \in 1..MaxPkgs : act = Call("action_build", nowait, n)
          \/ act = Call("action_build_package", nowait, 1)
    /\ n_ids = 0
    /\ w = Idle
    /\ twin = Idle
    /\ polls = 0

DoSubmit ==
    /\ act.pc = "loop"
    /\ act.k < act.n_pkgs
    /\ \E r \in Results : act' = Submitted(act, r)
    /\ UNCHANGED <<n_ids, w, twin, polls>>

DoProcessResult ==
    /\ act.pc = "result"
    /\ act' = ProcessResult(act)
    /\ IF act'.pc = "watching"
       THEN /\ n_ids' = Len(act.result.build_ids)
            /\ w' = Start(act.result.build_ids)
            /\ twin' = Start(Dedup(act.result.build_ids))
       ELSE UNCHANGED <<n_ids, w, twin>>
    /\ UNCHANGED polls

\* the watch has ended: its locals are gone
DoWatchEnded ==
    /\ act.pc = "watching"
    /\ w.pc = "done"
    /\ act' = WatchEnded(act, w)
    /\ n_ids' = 0
    /\ w' = Idle
    /\ twin' = Idle
    /\ UNCHANGED polls

DoActionReturned ==
    /\ act.pc = "loop"
    /\ act.k = act.n_pkgs
    /\ act' = ActionReturned(act)
    /\ UNCHANGED <<n_ids, w, twin, polls>>

BuildNext ==
    \/ DoSubmit
    \/ DoProcessResult
    \/ DoWatchEnded
    \/ DoActionReturned
    \/ DoWhileTest
    \/ DoForIter
    \/ DoGetBuildDetails
    \/ DoCheckOutput
    \/ DoNotify
    \/ DoCheckFailed
    \/ DoCheckTerminal
    \/ DoCheckUnknown
    \/ DoEndFor
    \/ DoSleep
    \/ DoSettle
    \/ KeyboardInterrupt

\* the build actions from the call by main to the exit of the process
BuildSpec == BuildInit /\ [][BuildNext]_vars

(* ---------------------- reading the history of a run ------------------ *)

\* the run ended in the except clause of line 157
WasInterrupted(s) ==
    Len(s.trace) > 0 /\ s.trace[Len(s.trace)].ev = "interrupt"

\* the run ended, and not by an interruption
Completed(s) == s.pc = "done" /\ ~WasInterrupted(s)

\* the queries of a run, in the order they were issued
QueryEvents(s) == SelectEv(s.trace, "query")

\* the identifiers of a sequence of events
IdsOf(evs) == [i \in 1..Len(evs) |-> evs[i].id]

\* every query so far was answered ok with a status in allowed
AllAnswersIn(s, allowed) ==
    \A i \in 1..Len(s.trace) :
        s.trace[i].ev = "query" =>
            s.trace[i].output = "ok" /\ s.trace[i].status \in allowed

\* the builds seen failed, each once, in the order their `failed` was seen
FailedInOrderSeen(s) ==
    Dedup(IdsOf(SelectSeq(QueryEvents(s),
                          LAMBDA e : e.output = "ok" /\ e.status = "failed")))

\* position of identifier b in sequence ids (0 when absent)
IndexOf(ids, b) ==
    IF b \in Range(ids) THEN CHOOSE i \in 1..Len(ids) : ids[i] = b ELSE 0

(* ------------------------------ claims -------------------------------- *)

\* C1: an uninterrupted watch of a non-empty watch set whose queries were
\* all answered ok, with non-terminal statuses and then `succeeded`, ends
\* by returning normally, and then the Done Set equals the Watch Set.
C1_AllSucceededReturnsNormally ==
    (/\ Completed(w)
     /\ w.watched # {}
     /\ AllAnswersIn(w, NonTerminal \cup {"succeeded"}))
    => (w.exc = "None" /\ w.msg = <<>> /\ w.done = w.watched)

\* C1 witness: two or more builds, one of them seen non-terminal first, all
\* ended succeeded, the watch returned
C1_Witness ==
    /\ Completed(w)
    /\ Cardinality(w.watched) >= 2
    /\ AllAnswersIn(w, NonTerminal \cup {"succeeded"})
    /\ \E i \in 1..Len(w.trace) : w.trace[i].status \in NonTerminal
    /\ w.exc = "None"
    /\ w.done = w.watched

\* C2: an uninterrupted watch in which some build reported `failed` and
\* every other one `succeeded` ends by raising CoprBuildException
\* "Build(s) ... failed." listing exactly the builds that reported `failed`,
\* each once, in the order in which their `failed` was first seen.
C2_FailedListedInOrderSeen ==
    (/\ Completed(w)
     /\ AllAnswersIn(w, NonTerminal \cup {"succeeded", "failed"})
     /\ FailedInOrderSeen(w) # <<>>)
    => (/\ w.exc = "CoprBuildException"
        /\ w.msg = <<"Build(s) ">> \o Join(FailedInOrderSeen(w)) \o <<" failed.">>
        /\ w.failed_ids = FailedInOrderSeen(w))

\* C2 witness: two builds failed and one succeeded, and the build that
\* failed first comes later in the iteration order than the other
C2_Witness ==
    /\ Completed(w)
    /\ AllAnswersIn(w, NonTerminal \cup {"succeeded", "failed"})
    /\ Len(w.failed_ids) = 2
    /\ Cardinality(w.watched) = 3
    /\ IndexOf(w.order, w.failed_ids[1]) > IndexOf(w.order, w.failed_ids[2])
    /\ w.exc = "CoprBuildException"

\* the CoprBuildException raised is the one of line 153, not of line 144
PartialFailureRaised(s) ==
    s.exc = "CoprBuildException" /\ s.msg # <<"Unknown status.">>

\* C3: the Partial Build Failure Error is raised only when every watched
\* build is in the Done Set, each after a terminal status was seen for it.
C3_FailureOnlyWhenAllDone ==
    PartialFailureRaised(w) =>
        /\ w.done = w.watched
        /\ \A b \in w.watched :
              \E i \in 1..Len(w.trace) :
                  /\ w.trace[i].ev = "query" /\ w.trace[i].id = b
                  /\ w.trace[i].output = "ok" /\ w.trace[i].status \in Terminal

\* C3 witness: the error is raised after a build was seen failed and
\* another build was still queried in a later round
C3_Witness ==
    /\ PartialFailureRaised(w)
    /\ \E i, j, k \in 1..Len(w.trace) :
          /\ i < j /\ j < k
          /\ w.trace[i].ev = "query" /\ w.trace[i].status = "failed"
          /\ w.trace[j].ev = "sleep"
          /\ w.trace[k].ev = "query" /\ w.trace[k].id # w.trace[i].id

\* the events of a run after its i-th
After(s, i) == SubSeq(s.trace, i + 1, Len(s.trace))

\* a query of the history that was answered not ok
FailedQuery(s, i) == s.trace[i].ev = "query" /\ s.trace[i].output # "ok"

\* C4: a status query of build b answered not ok ends the watch at once
\* with a CoprRequestException whose message carries b and the report's
\* error detail (unless the user interrupts first): after that query no
\* query is issued, no status line is printed and no sleep occurs.
C4_FailedQueryAborts ==
    \A i \in 1..Len(w.trace) :
        FailedQuery(w, i) =>
            /\ \A j \in i + 1..Len(w.trace) : w.trace[j].ev = "interrupt"
            /\ w.pc \in {"chk_output", "done"}
            /\ Completed(w) =>
                  /\ w.exc = "CoprRequestException"
                  /\ w.msg = <<"  Build ", Str(w.trace[i].id),
                               ": Unable to get build status: ", w.trace[i].error>>

\* C4 witness: the error is raised in a round in which an earlier build was
\* queried and a later build of the watch set is never queried
C4_Witness ==
    /\ w.exc = "CoprRequestException"
    /\ Len(QueryEvents(w)) >= 2
    /\ \E b \in w.watched : b \notin Range(IdsOf(QueryEvents(w)))
    /\ FailedQuery(w, Len(w.trace))

\* a query of the history that was answered ok with status `unknown`
UnknownQuery(s, i) ==
    /\ s.trace[i].ev = "query"
    /\ s.trace[i].output = "ok"
    /\ s.trace[i].status = "unknown"

\* C5: a query answered ok with status `unknown` ends the watch with the
\* CoprBuildException "Unknown status." (unless the user interrupts first):
\* after that query no query is issued and no sleep occurs, so the later
\* builds of the round are not queried and no later round starts.
C5_UnknownAborts ==
    \A i \in 1..Len(w.trace) :
        UnknownQuery(w, i) =>
            /\ \A j \in i + 1..Len(w.trace) :
                  \/ w.trace[j].ev = "interrupt"
                  \/ w.trace[j] = Event("notify", w.trace[i].id, "", "unknown", "")
            /\ w.pc \in {"chk_output", "chk_prev", "chk_failed", "chk_terminal",
                         "chk_unknown", "done"}
            /\ w.build_id = w.trace[i].id
            /\ Completed(w) =>
                  (w.exc = "CoprBuildException" /\ w.msg = <<"Unknown status.">>)

\* C5 witness: the error is raised while a later build of the round was
\* not queried in it and an earlier build is still not done
C5_Witness ==
    /\ w.exc = "CoprBuildException"
    /\ w.msg = <<"Unknown status.">>
    /\ w.idx <= Len(w.order)
    /\ w.order[w.idx] \notin w.done
    /\ \E b \in w.watched \ w.done : IndexOf(w.order, b) < IndexOf(w.order, w.build_id)

\* C6: an interruption at any point of the try block makes the watch
\* return normally: no exception reaches the caller, whatever the Done Set
\* and the Failed List hold, and the interruption can arrive at every
\* point before the watch has ended.
C6_InterruptReturnsNormally ==
    /\ WasInterrupted(w) => (w.pc = "done" /\ w.exc = "None" /\ w.msg = <<>>)
    /\ w.pc # "done" => ENABLED KeyboardInterrupt

\* C6 witness: interrupted right after a query or its status line, when a
\* build has been seen failed and another build is not done
C6_Witness ==
    /\ WasInterrupted(w)
    /\ w.failed_ids # <<>>
    /\ w.done # w.watched
    /\ Len(w.trace) >= 2
    /\ w.trace[Len(w.trace) - 1].ev \in {"query", "notify"}

\* the statuses seen for build b in the queries answered ok, in order
ObservedStatuses(s, b) ==
    LET evs == SelectSeq(s.trace, LAMBDA e : e.ev = "query" /\ e.id = b
                                                /\ e.output = "ok")
    IN  [i \in 1..Len(evs) |-> evs[i].status]

RECURSIVE Unprinted(_, _, _, _)
\* from place i of history t on, when the status seen last for build b is
\* `last`: the number of maximal runs of equal consecutive statuses seen for
\* b (a status that differs from the one seen before starts a run) less the
\* number of status lines printed for b
Unprinted(t, i, b, last) ==
    IF i > Len(t) THEN 0
    ELSE IF t[i].id # b THEN Unprinted(t, i + 1, b, last)
    ELSE IF t[i].ev = "notify" THEN Unprinted(t, i + 1, b, last) - 1
    ELSE IF t[i].ev = "query" /\ t[i].output = "ok"
         THEN (IF t[i].status # last THEN 1 ELSE 0)
              + Unprinted(t, i + 1, b, t[i].status)
         ELSE Unprinted(t, i + 1, b, last)

\* the number of status lines printed for build b
Notifications(s, b) ==
    Cardinality({i \in 1..Len(s.trace) :
        s.trace[i].ev = "notify" /\ s.trace[i].id = b})

\* C7: for each build the number of status lines printed is never more
\* than the number of maximal runs of equal consecutive statuses seen for
\* it (nothing is seen before the first query), and equals it once the
\* last report has been processed (lines 131-136 have run for it).
C7_OneNotificationPerRun ==
    \A b \in Ids :
        LET unprinted == Unprinted(w.trace, 1, b, "")
        IN  /\ unprinted >= 0
            /\ (w.pc \notin {"chk_output", "chk_prev"} /\ ~WasInterrupted(w))
                  => unprinted = 0

\* C7 witness: pending, pending, succeeded seen for one build: two lines
C7_Witness ==
    /\ Completed(w)
    /\ w.exc = "None"
    /\ \E b \in w.watched :
          /\ ObservedStatuses(w, b) = <<"pending", "pending", "succeeded">>
          /\ Notifications(w, b) = 2

\* the number of queries issued for build b
QueryCount(s, b) == Len(SelectSeq(QueryEvents(s), LAMBDA e : e.id = b))

\* C8: no step issues a status query for a build that is in the Done Set.
C8_DoneNeverRequeried ==
    [][\A b \in w.done : QueryCount(w', b) = QueryCount(w, b)]_vars

\* C8 witness: a build is done and another build is queried in a later round
C8_Witness ==
    \E i, j, k \in 1..Len(w.trace) :
        /\ i < j /\ j < k
        /\ w.trace[i].ev = "query" /\ w.trace[i].id \in w.done
        /\ w.trace[j].ev = "sleep"
        /\ w.trace[k].ev = "query" /\ w.trace[k].id # w.trace[i].id

\* every watched build has been reported with a terminal status
AllSeenTerminal(s) ==
    \A b \in s.watched :
        \E i \in 1..Len(s.trace) :
            /\ s.trace[i].ev = "query" /\ s.trace[i].id = b
            /\ s.trace[i].output = "ok" /\ s.trace[i].status \in Terminal

\* the queries and sleeps of a run
PollsAndSleeps(s) == SelectSeq(s.trace, LAMBDA e : e.ev \in {"query", "sleep"})

\* C9: when no interruption occurs, every query is answered ok with a
\* recognized status and the Status Source stops reporting builds
\* non-terminal after finitely many answers, the watch leaves the polling
\* loop and ends, with every build done, by returning normally or by
\* raising the Partial Build Failure Error; once every build has been
\* reported terminal it neither queries nor sleeps again.
C9_WatchEnds ==
    /\ <>(/\ w.pc = "done"
          /\ w.done = w.watched
          /\ (w.exc = "None" \/ PartialFailureRaised(w)))
    /\ [][AllSeenTerminal(w) => PollsAndSleeps(w') = PollsAndSleeps(w)]_vars

\* C9 witness: a watch of two or more builds ended after the Status Source
\* had used up its non-terminal answers and the loop had slept
C9_Witness ==
    /\ w.pc = "done"
    /\ polls = MaxPolls
    /\ Cardinality(w.watched) >= 2
    /\ \E i \in 1..Len(w.trace) : w.trace[i].ev = "sleep"

RECURSIVE OncePerRound(_, _, _)
\* from place i of history t on, no build is queried twice without a sleep
\* in between, the builds in seen having been queried since the last sleep
OncePerRound(t, i, seen) ==
    IF i > Len(t) THEN TRUE
    ELSE IF t[i].ev = "sleep" THEN OncePerRound(t, i + 1, {})
    ELSE IF t[i].ev = "query"
         THEN t[i].id \notin seen /\ OncePerRound(t, i + 1, seen \cup {t[i].id})
         ELSE OncePerRound(t, i + 1, seen)

\* C10: the watch of build_ids and the watch of build_ids without its
\* repeated identifiers go through the same states against the same answers
\* (same queries, same status lines, same outcome); no build is queried
\* twice without a sleep in between, and none is twice in the failed list.
C10_DuplicatesIdempotent ==
    /\ w = twin
    /\ OncePerRound(w.trace, 1, {})
    /\ Cardinality(Range(w.failed_ids)) = Len(w.failed_ids)

\* C10 witness: build_ids names two builds and one of them twice; the
\* watch ran to its end over two rounds or more and found a build failed
C10_Witness ==
    /\ Completed(w)
    /\ Cardinality(w.watched) = 2
    /\ n_ids = 3
    /\ w.failed_ids # <<>>
    /\ \E b \in w.watched : QueryCount(w, b) >= 2

\* the number of sleeps of a run that returned
SleepCount(s) == Len(SelectEv(s.trace, "sleep"))

\* the number of rounds of a run: the most queries issued for one build (a
\* build is queried at most once in a round, and the build that is done
\* last, or that ends the watch, is queried in every round)
Rounds(s) ==
    LET counts == {QueryCount(s, b) : b \in s.watched} \cup {0}
    IN  CHOOSE n \in counts : \A m \in counts : m <= n

RECURSIVE OneSleepBetween(_, _, _, _)
\* from place i of history t on, every query of build b but its first comes
\* exactly one sleep after the query of b before it; since is the number of
\* sleeps since the last query of b (-1: b was not queried yet)
OneSleepBetween(t, i, b, since) ==
    IF i > Len(t) THEN TRUE
    ELSE IF t[i].ev = "sleep"
         THEN OneSleepBetween(t, i + 1, b, IF since = -1 THEN -1 ELSE since + 1)
    ELSE IF t[i].ev = "query" /\ t[i].id = b
         THEN since \in {-1, 1} /\ OneSleepBetween(t, i + 1, b, 0)
         ELSE OneSleepBetween(t, i + 1, b, since)

\* C11: the loop sleeps after a round if and only if some watched build is
\* not done at the end of that round (the round in which the last build
\* becomes done is followed by no sleep); a watch that ran to its end in n
\* rounds slept n-1 times, and two consecutive queries of one build are
\* exactly one sleep apart.
C11_SleepIffNotAllDone ==
    /\ [](/\ w.pc = "sleep" => (w.done # w.watched /\ w.idx > Len(w.order))
          /\ (Completed(w) /\ Rounds(w) > 0) => SleepCount(w) = Rounds(w) - 1
          /\ \A b \in w.watched : OneSleepBetween(w.trace, 1, b, -1))
    /\ [][/\ (w.pc = "endfor" /\ ~WasInterrupted(w'))
               => (w'.pc = "sleep" <=> w.done # w.watched)
          /\ SleepCount(w') # SleepCount(w)
               => (w.pc = "sleep" /\ SleepCount(w') = SleepCount(w) + 1)]_vars

\* C11 witness: a watch of two builds ran to its end in three rounds, one
\* build being done in the first: it slept twice
C11_Witness ==
    /\ Completed(w)
    /\ Cardinality(w.watched) = 2
    /\ w.done = w.watched
    /\ Rounds(w) = 3
    /\ SleepCount(w) = 2
    /\ \E b \in w.watched : QueryCount(w, b) = 1

\* C12: the Unknown Status Error carries the identifier of the build whose
\* status was reported `unknown`: the identifier is part of its message.
C12_UnknownErrorCarriesId ==
    \A i \in 1..Len(w.trace) :
        (/\ UnknownQuery(w, i)
         /\ w.exc = "CoprBuildException"
         /\ Cardinality(w.watched) >= 2)
        => Str(w.trace[i].id) \in Range(w.msg)

\* the watch ended with one of its three errors
WatchErrorRaised(s) == s.pc = "done" /\ s.exc # "None"

\* C13: a watch that ends with any of its three errors makes the process
\* exit with a status other than 0, and the status after the Partial Build
\* Failure Error differs from the status after a Status Retrieval Error.
C13_ErrorsExitNonZero ==
    WatchErrorRaised(w) =>
        /\ MainExit(w.exc) # 0
        /\ PartialFailureRaised(w) => MainExit(w.exc) # MainExit("CoprRequestException")
        /\ w.exc = "CoprRequestException" => MainExit(w.exc) # MainExit("CoprBuildException")

\* C13 witness: the Partial Build Failure Error is raised and the process
\* exits with the status of the clause of line 1053
C13_Witness ==
    /\ PartialFailureRaised(w)
    /\ w.pc = "done"
    /\ MainExit(w.exc) = 4

\* the builds that some query reported, answered ok, with a status in sts
SeenWith(s, sts) ==
    {s.trace[i].id : i \in {j \in 1..Len(s.trace) :
        /\ s.trace[j].ev = "query"
        /\ s.trace[j].output = "ok"
        /\ s.trace[j].status \in sts}}

\* C14: a build is added to the Done Set exactly when the status seen for it
\* is succeeded, skipped, failed or canceled, and appended to the Failed
\* List exactly when that status is `failed` (an interruption may come
\* before the report is processed); an uninterrupted watch whose builds all
\* end succeeded, skipped or canceled returns normally.
C14_DoneIffTerminal ==
    /\ [](/\ w.done \subseteq SeenWith(w, Terminal)
          /\ Range(w.failed_ids) \subseteq SeenWith(w, {"failed"})
          /\ (w.pc \notin {"chk_output", "chk_prev", "chk_failed", "chk_terminal"}
                /\ ~WasInterrupted(w))
                => w.done = SeenWith(w, Terminal)
          /\ (w.pc \notin {"chk_output", "chk_prev", "chk_failed"}
                /\ ~WasInterrupted(w))
                => Range(w.failed_ids) = SeenWith(w, {"failed"})
          /\ (/\ Completed(w)
              /\ AllAnswersIn(w, NonTerminal \cup {"succeeded", "skipped", "canceled"}))
                => (w.exc = "None" /\ w.done = w.watched))
    /\ [][/\ w'.done # w.done
              => (/\ w.pc = "chk_terminal"
                  /\ w.build_details.status \in Terminal
                  /\ w'.done = w.done \cup {w.build_id})
          /\ w'.failed_ids # w.failed_ids
              => (/\ w.pc = "chk_failed"
                  /\ w.build_details.status = "failed"
                  /\ w'.failed_ids = Append(w.failed_ids, w.build_id))]_vars

\* C14 witness: a watch of builds seen skipped and canceled, and none seen
\* failed, ran to its end and returned normally with all of them done
C14_Witness ==
    /\ Completed(w)
    /\ SeenWith(w, {"skipped"}) # {}
    /\ SeenWith(w, {"canceled"}) # {}
    /\ SeenWith(w, {"skipped", "canceled"}) \subseteq w.done
    /\ w.done = w.watched
    /\ w.failed_ids = <<>>
    /\ w.exc = "None"

\* what the caller of _watch_builds receives: the exception raised, if any,
\* and its message (the method returns no value)
Outcome(s) == <<s.exc, s.msg>>

\* C15: an interruption of the watch loop does not reach the caller: the
\* watch returns as a watch of builds that all succeeded does, main enters
\* none of its except clauses (so not the one of KeyboardInterrupt) and
\* the process exits with status 0, whatever the Done Set and the Failed
\* List hold.
C15_InterruptNotPropagated ==
    /\ WasInterrupted(w) =>
          /\ Outcome(w) = <<"None", <<>>>>
          /\ MainHandler(w.exc) = "None"
          /\ MainExit(w.exc) = 0
    /\ (/\ Completed(w)
        /\ AllAnswersIn(w, NonTerminal \cup {"succeeded"}))
          => Outcome(w) = <<"None", <<>>>>

\* C15 witness: the watch was interrupted when a build had been found
\* failed and was done, and the process exits with status 0
C15_Witness ==
    /\ WasInterrupted(w)
    /\ w.failed_ids # <<>>
    /\ Range(w.failed_ids) \subseteq w.done
    /\ MainHandler(w.exc) = "None"
    /\ MainExit(w.exc) = 0

\* the last event of a run that has one
LastEvent(s) == s.trace[Len(s.trace)]

\* C16: a report whose output is not "ok" ends the watch with the
\* CoprRequestException whose message holds the report's error detail and
\* the build, whatever the status of the report; from the query on, the
\* Progress Ledger, the Done Set and the Failed List stay as they were and
\* no status line is printed.
C16_NotOkIsRetrievalError ==
    /\ []((/\ Completed(w)
           /\ w.build_details.output \notin {"", "ok"})
          => (/\ w.exc = "CoprRequestException"
              /\ w.msg = <<"  Build ", Str(w.build_id),
                           ": Unable to get build status: ",
                           w.build_details.error>>
              /\ LastEvent(w) = Event("query", w.build_id, w.build_details.output,
                                      w.build_details.status,
                                      w.build_details.error)))
    /\ [][w'.build_details.output \notin {"", "ok"}
            => (/\ w'.prevstatus = w.prevstatus
                /\ w'.done = w.done
                /\ w'.failed_ids = w.failed_ids
                /\ SelectEv(w'.trace, "notify") = SelectEv(w.trace, "notify"))]_vars

\* C16 witness: a build seen running is then reported not ok with status
\* `failed`: the watch ends with the retrieval error, the ledger still says
\* running and the build is neither done nor failed
C16_Witness ==
    /\ Completed(w)
    /\ w.exc = "CoprRequestException"
    /\ w.build_details.output # "ok"
    /\ w.build_details.status = "failed"
    /\ w.prevstatus[w.build_id] = "running"
    /\ w.build_id \notin w.done
    /\ w.failed_ids = <<>>

\* the statuses the watch recognizes: every status but `unknown`
Recognized == NonTerminal \cup Terminal

\* C17: a status line is printed, and the Progress Ledger entry set, only
\* right after a query answered ok with a recognized status that differs
\* from the entry; a query that returns `unknown` prints no status line and
\* leaves the ledger alone.
C17_NotifyOnlyRecognized ==
    /\ \A i \in 1..Len(w.trace) :
          w.trace[i].ev = "notify" =>
              /\ i > 1
              /\ w.trace[i - 1] = Event("query", w.trace[i].id, "ok",
                                        w.trace[i].status, "")
              /\ w.trace[i].status \in Recognized
    /\ \A b \in Ids : w.prevstatus[b] \in Recognized \cup {"None"}

\* the place of the last sleep in history t (0 when it holds none)
LastSleep(t) ==
    LET at == {i \in 1..Len(t) : t[i].ev = "sleep"} \cup {0}
    IN  CHOOSE i \in at : \A j \in at : j <= i

\* the status seen last for build b in history t ("" when none was seen)
LastSeen(t, b) ==
    LET sts == ObservedStatuses([trace |-> t], b)
    IN  IF sts = <<>> THEN "" ELSE sts[Len(sts)]

\* the CoprBuildException raised is the one of line 144
UnknownRaised(s) ==
    Completed(s) /\ s.exc = "CoprBuildException" /\ s.msg = <<"Unknown status.">>

\* C18: when the watch ends with the Unknown Status Error, the builds
\* queried in that round are those that come up to the build reported
\* `unknown` in the iteration order and were not done before the round, in
\* that order; the first `unknown` answered is the last query; and every
\* earlier query of the round that showed a new status for its build is
\* followed at once by its status line, its terminal status recorded.
C18_UnknownDoesNotMask ==
    UnknownRaised(w) =>
        LET cut    == LastSleep(w.trace)
            before == SubSeq(w.trace, 1, cut)
            round  == SubSeq(w.trace, cut + 1, Len(w.trace))
            doneBefore == SeenWith([trace |-> before], Terminal)
            turn   == IndexOf(w.order, w.build_id)
        IN  /\ IdsOf(SelectEv(round, "query"))
                  = SelectSeq(SubSeq(w.order, 1, turn),
                              LAMBDA b : b \notin doneBefore)
            /\ \A i \in 1..Len(w.trace) :
                  UnknownQuery(w, i) =>
                      /\ w.trace[i].id = w.build_id
                      /\ \A j \in i + 1..Len(w.trace) : w.trace[j].ev # "query"
            /\ \A i \in 1..Len(round) :
                  (/\ round[i].ev = "query"
                   /\ round[i].id # w.build_id
                   /\ round[i].status # LastSeen(before, round[i].id))
                  => round[i + 1] = Event("notify", round[i].id, "",
                                          round[i].status, "")
            /\ SeenWith(w, Terminal) = w.done
            /\ SeenWith(w, {"failed"}) = Range(w.failed_ids)

\* C18 witness: in a second round a build is seen with a new status, its
\* line is printed, and then a later build is reported `unknown`
C18_Witness ==
    /\ UnknownRaised(w)
    /\ LastSleep(w.trace) > 0
    /\ \E i \in LastSleep(w.trace) + 1..Len(w.trace) - 1 :
          /\ w.trace[i].ev = "query"
          /\ w.trace[i].id # w.build_id
          /\ w.trace[i].status # LastSeen(SubSeq(w.trace, 1, LastSleep(w.trace)),
                                          w.trace[i].id)
          /\ w.trace[i + 1].ev = "notify"

\* the builds queried since the last sleep, in the order of their queries
RoundQueries(s) ==
    IdsOf(SelectEv(SubSeq(s.trace, LastSleep(s.trace) + 1, Len(s.trace)),
                   "query"))

\* the builds that were done when the last sleep returned
DoneBeforeRound(s) ==
    SeenWith([trace |-> SubSeq(s.trace, 1, LastSleep(s.trace))], Terminal)

\* C19: when a round has run to its end, the builds queried in it are the
\* watched builds that were not done, each once, in the iteration order of
\* the Watch Set, which is the same for all rounds; a query is issued only
\* for the build the for loop has reached, one query in a step, and only
\* when every earlier report has been processed in full (its status in the
\* ledger, its terminal status in the Done Set and the Failed List).
C19_EachOnceInOrder ==
    /\ [](/\ w.pc = "endfor"
                => RoundQueries(w)
                     = SelectSeq(w.order, LAMBDA b : b \notin DoneBeforeRound(w))
          /\ w.pc = "get"
                => (/\ w.done = SeenWith(w, Terminal)
                    /\ Range(w.failed_ids) = SeenWith(w, {"failed"})
                    /\ \A b \in w.watched :
                          w.prevstatus[b] =
                              (IF LastSeen(w.trace, b) = "" THEN "None"
                               ELSE LastSeen(w.trace, b))))
    /\ [][/\ w'.order = w.order
          /\ QueryEvents(w') # QueryEvents(w)
                => (/\ w.pc = "get"
                    /\ w.build_id \notin w.done
                    /\ w.build_id = w.order[w.idx - 1]
                    /\ IdsOf(QueryEvents(w'))
                          = Append(IdsOf(QueryEvents(w)), w.build_id)
                    /\ w'.pc = "chk_output")]_vars

\* C19 witness: a second round ran to its end; a build that was done in the
\* first round was passed over and two others were queried again
C19_Witness ==
    /\ w.pc = "endfor"
    /\ LastSleep(w.trace) > 0
    /\ Cardinality(w.watched) = 3
    /\ Cardinality(DoneBeforeRound(w)) = 1
    /\ Len(RoundQueries(w)) = 2

\* the build and the status of each event of kind k of a run, in order
Stream(s, k) ==
    LET evs == SelectEv(s.trace, k)
    IN  [i \in 1..Len(evs) |-> <<evs[i].id, evs[i].status>>]

RECURSIVE IsSubseq(_, _)
\* sequence a is b with some of its elements left out
IsSubseq(a, b) ==
    IF a = <<>> THEN TRUE
    ELSE IF b = <<>> THEN FALSE
    ELSE IF Head(a) = Head(b) THEN IsSubseq(Tail(a), Tail(b))
    ELSE IsSubseq(a, Tail(b))

RECURSIVE Compress(_)
\* sequence q with every element that equals the one before it left out
Compress(q) ==
    IF Len(q) <= 1 THEN q
    ELSE LET front == Compress(SubSeq(q, 1, Len(q) - 1))
         IN  IF q[Len(q)] = q[Len(q) - 1] THEN front
             ELSE Append(front, q[Len(q)])

\* the statuses of the status lines printed for build b, in order
NotifiedStatuses(s, b) ==
    LET evs == SelectSeq(s.trace, LAMBDA e : e.ev = "notify" /\ e.id = b)
    IN  [i \in 1..Len(evs) |-> evs[i].status]

\* C20: a status line is printed right after the query that showed the
\* status and before any other query, at the end of what was printed so
\* far; so the lines, as (build, status) pairs, are the queries with some
\* left out, and the lines of one build show its statuses in the order they
\* were seen, lacking at most the one of the report being processed.
C20_NotificationsInDetectionOrder ==
    /\ [](/\ \A i \in 1..Len(w.trace) :
                w.trace[i].ev = "notify" =>
                    /\ i > 1
                    /\ w.trace[i - 1].ev = "query"
                    /\ w.trace[i - 1].id = w.trace[i].id
                    /\ w.trace[i - 1].status = w.trace[i].status
          /\ IsSubseq(Stream(w, "notify"), Stream(w, "query"))
          /\ \A b \in w.watched :
                LET seen    == Compress(ObservedStatuses(w, b))
                    printed == NotifiedStatuses(w, b)
                IN  /\ Len(printed) <= Len(seen)
                    /\ Len(seen) <= Len(printed) + 1
                    /\ printed = SubSeq(seen, 1, Len(printed)))
    /\ [][Stream(w', "notify") # Stream(w, "notify")
            => (/\ w.pc = "chk_prev"
                /\ LastEvent(w).ev = "query"
                /\ w'.trace = Append(w.trace,
                                     Event("notify", w.build_id, "",
                                           w.build_details.status, "")))]_vars

\* C20 witness: the lines of two builds interleave: a build has a line, then
\* another build with a smaller identifier has one, then the first again
C20_Witness ==
    LET lines == Stream(w, "notify")
    IN  /\ Completed(w)
        /\ \E i, j, k \in 1..Len(lines) :
              /\ i < j /\ j < k
              /\ lines[i][1] = lines[k][1]
              /\ lines[j][1] < lines[i][1]
              /\ lines[i][2] # lines[k][2]

\* C21: in every state the Done Set is part of the Watch Set and each of
\* its members has a terminal status in the Progress Ledger; the code after
\* the loop is reached, and the watch returns normally without an
\* interruption, only with the two sets equal; no step takes a member out
\* of the Done Set or changes the Watch Set.
C21_DoneWithinWatched ==
    /\ [](/\ w.done \subseteq w.watched
          /\ \A b \in w.done : w.prevstatus[b] \in Terminal
          /\ w.pc = "settle" => w.done = w.watched
          /\ (Completed(w) /\ w.exc = "None") => w.done = w.watched)
    /\ [][/\ w.done \subseteq w'.done
          /\ w'.watched = w.watched
          /\ (w'.pc = "settle" /\ w.pc # "settle")
                => (w.pc \in {"while", "endfor"} /\ w.done = w.watched)]_vars

\* C21 witness: the loop is left after a second round with three builds
\* done, not all with the same terminal status
C21_Witness ==
    /\ w.pc = "settle"
    /\ Cardinality(w.done) = 3
    /\ w.done = w.watched
    /\ LastSleep(w.trace) > 0
    /\ Cardinality({w.prevstatus[b] : b \in w.done}) >= 2

\* some query of the run was answered not ok, or ok with status `unknown`
QueryWentWrong(s) ==
    \E i \in 1..Len(s.trace) : FailedQuery(s, i) \/ UnknownQuery(s, i)

\* C22: once a query has been answered not ok or with `unknown`, the
\* Partial Build Failure Error is not raised; a watch that then ends
\* uninterrupted ends with the error of that query, and no build of the
\* Failed List is named in the message of the error.
C22_ErrorBeforeFailures ==
    QueryWentWrong(w) =>
        /\ ~PartialFailureRaised(w)
        /\ w.pc \notin {"endfor", "sleep", "while", "settle"}
        /\ Completed(w) =>
              /\ w.exc = (IF w.build_details.output # "ok"
                          THEN "CoprRequestException" ELSE "CoprBuildException")
              /\ \A b \in Range(w.failed_ids) : Str(b) \notin Range(w.msg)

\* C22 witness: a build was found failed, and a later query, answered with
\* `unknown`, ended the watch with the Unknown Status Error
C22_Witness ==
    /\ UnknownRaised(w)
    /\ w.failed_ids # <<>>
    /\ w.build_id \notin Range(w.failed_ids)

\* C22 witness for the retrieval error: builds were found failed in an
\* earlier round, then a query was answered not ok
C22_WitnessRequest ==
    /\ Completed(w)
    /\ w.exc = "CoprRequestException"
    /\ Len(w.failed_ids) = 2
    /\ LastSleep(w.trace) > 0

\* C23 as stated: in every state the Failed List names no build twice, and
\* each build in it is in the Done Set with `failed` in the Progress Ledger.
C23_FailedWithinDone ==
    /\ Cardinality(Range(w.failed_ids)) = Len(w.failed_ids)
    /\ Range(w.failed_ids) \subseteq w.done
    /\ \A b \in Range(w.failed_ids) : w.prevstatus[b] = "failed"

\* C23 amended: the Failed List names no build twice and each build in it
\* has `failed` in the Progress Ledger; a build in it is in the Done Set
\* except between lines 139 and 142, when the build being processed has
\* been appended and not yet added (it never is when an interruption
\* arrives there); the step after the append adds it unless it is the
\* interruption; the Failed List only grows at its end.
C23_FailedThenDone ==
    /\ [](/\ Cardinality(Range(w.failed_ids)) = Len(w.failed_ids)
          /\ \A b \in Range(w.failed_ids) : w.prevstatus[b] = "failed"
          /\ Range(w.failed_ids) \ w.done # {}
                => (/\ Range(w.failed_ids) \ w.done = {w.build_id}
                    /\ w.failed_ids[Len(w.failed_ids)] = w.build_id
                    /\ w.pc = "chk_terminal" \/ WasInterrupted(w)))
    /\ [][/\ Len(w.failed_ids) <= Len(w'.failed_ids)
          /\ SubSeq(w'.failed_ids, 1, Len(w.failed_ids)) = w.failed_ids
          /\ (w.pc = "chk_terminal" /\ ~WasInterrupted(w'))
                => Range(w'.failed_ids) \subseteq w'.done]_vars

\* C23 witness: the interruption arrived between lines 139 and 142: the
\* watch has ended with a build in the Failed List that is not done
C23_Witness ==
    /\ WasInterrupted(w)
    /\ w.failed_ids # <<>>
    /\ w.failed_ids[Len(w.failed_ids)] \notin w.done
    /\ w.prevstatus[w.build_id] = "failed"

\* the submission of package k was followed by no watch
NotWatched(a, e) == e.ev = "submit" /\ (e.exc # "ok" \/ a.nowait)

\* C24: the build action submits its packages one after another: package
\* k+1 is submitted only when the package before it was submitted without a
\* watch or its watch has returned without an exception (it ran to its end
\* with no failure, or was interrupted); a watch that ends with an
\* exception is the last thing the action does, and a watch runs only
\* inside the action's call of it.
C24_PackagesOneAfterAnother ==
    /\ [](/\ \A i \in 1..Len(act.log) :
                /\ (act.log[i].ev = "submit" /\ act.log[i].k > 1)
                      => (/\ act.log[i - 1].k = act.log[i].k - 1
                          /\ \/ act.log[i - 1] = Entry("return", act.log[i].k - 1,
                                                       <<>>, "None")
                             \/ NotWatched(act, act.log[i - 1]))
                /\ (act.log[i].ev = "return" /\ act.log[i].exc # "None")
                      => (/\ i = Len(act.log)
                          /\ act.pc = "exit"
                          /\ act.exc = act.log[i].exc
                          /\ act.status # 0)
          /\ w.pc # "done" => act.pc = "watching")
    /\ [][/\ act'.k # act.k
                => (/\ act'.k = act.k + 1
                    /\ act.pc = "loop"
                    /\ act.exc = "None"
                    /\ w = Idle)
          /\ (act.pc = "watching" /\ act'.pc = "loop")
                => (w.pc = "done" /\ w.exc = "None")
          /\ (act.pc = "watching" /\ act'.pc = "exit")
                => (w.pc = "done" /\ w.exc # "None" /\ act'.exc = w.exc)]_vars

\* C24 witness: the watch of the first package returned, the second package
\* was then submitted and watched, and its watch ended with an error
C24_Witness ==
    /\ act.pc = "exit"
    /\ act.k = 2
    /\ act.exc # "None"
    /\ Len(act.log) = 6
    /\ act.log[3] = Entry("return", 1, <<>>, "None")
    /\ act.log[4].ev = "submit"
    /\ act.log[6].ev = "return"

\* C24 witness for the error: the watch of the first of two packages ended
\* with an error and the second package was never submitted
C24_WitnessError ==
    /\ act.pc = "exit"
    /\ act.n_pkgs = 2
    /\ act.k = 1
    /\ act.exc = "CoprBuildException"
    /\ act.status = 4

\* C25: a watch is started exactly when a submission has returned ok and
\* nowait is not set, right after that submission and on the build
\* identifiers it returned; a status query is issued only in such a watch,
\* for one of those identifiers; with nowait set, or after a result that is
\* not ok, no watch exists and the next package, if any, follows.
C25_WatchOnlyAfterOkSubmission ==
    /\ [](/\ \A i \in 1..Len(act.log) :
                act.log[i].ev = "watch" =>
                    /\ i > 1
                    /\ act.log[i - 1] = Entry("submit", act.log[i].k,
                                              act.log[i].ids, "ok")
                    /\ ~act.nowait
          /\ act.pc = "watching"
                => (/\ w.watched = Range(act.result.build_ids)
                    /\ n_ids = Len(act.result.build_ids)
                    /\ act.result.output = "ok")
          /\ act.nowait => w = Idle)
    /\ [][/\ Len(QueryEvents(w')) > Len(QueryEvents(w))
                => (/\ act.pc = "watching"
                    /\ act.result.output = "ok"
                    /\ ~act.nowait
                    /\ w.build_id \in Range(act.result.build_ids))
          /\ act.pc = "result"
                => IF act.result.output = "ok" /\ ~act.nowait
                   THEN /\ act'.pc = "watching"
                        /\ w' = Start(act.result.build_ids)
                   ELSE /\ act'.pc = "loop"
                        /\ w' = w
                        /\ act'.log = act.log]_vars

\* C25 witness: with nowait set two packages were submitted, both with
\* result ok and builds returned, and the action ended without any watch
C25_Witness ==
    /\ act.pc = "exit"
    /\ act.nowait
    /\ Len(act.log) = 2
    /\ \A i \in 1..2 : act.log[i].exc = "ok" /\ act.log[i].ids # <<>>
    /\ w = Idle
    /\ act.status = 0

\* C25 witness for a result that is not ok: nowait is not set, the first
\* submission failed and the second was watched
C25_WitnessNotOk ==
    /\ ~act.nowait
    /\ Len(act.log) >= 3
    /\ act.log[1].exc = "notok"
    /\ act.log[2].ev = "submit"
    /\ act.log[3].ev = "watch"
    /\ QueryEvents(w) # <<>>
    /\ w.watched = Range(act.log[3].ids)

\* C26: a watch of no builds never enters the loop body: it issues no
\* query, prints no status line, does not sleep and raises nothing; left
\* alone it returns normally after the while test.
C26_EmptyWatchReturns ==
    w.watched = {} =>
        /\ w.pc \in {"while", "settle", "done"}
        /\ w.exc = "None"
        /\ w.msg = <<>>
        /\ \A i \in 1..Len(w.trace) : w.trace[i].ev = "interrupt"
        /\ w.done = {} /\ w.failed_ids = <<>>
        /\ Completed(w) => w.trace = <<>>

\* C26 witness: the watch of the empty list has returned, uninterrupted
C26_Witness ==
    /\ n_ids = 0
    /\ act = Direct
    /\ w.pc = "done"
    /\ w.trace = <<>>
    /\ w.order = <<>>

====
